---- MODULE Spec2Model ----
(***************************************************************************)
(* Model of ViroScan's src/write_output_tables.py: one invocation reads a  *)
(* breseq summary record, computes the percentage of mapped reads of each  *)
(* reference (parse_json_file), orders the kept references naturally       *)
(* (natural_sort) and appends a counts line and the table lines to two     *)
(* append-mode destinations (write_results).                               *)
(*                                                                         *)
(* Conventions.  A character is a one-element name; an identifier is a     *)
(* sequence of characters.  "AR3" names U+0663 (ARABIC-INDIC DIGIT THREE)  *)
(* and "SUP2" names U+00B2 (SUPERSCRIPT TWO).  A percentage is held in     *)
(* tenths of a percent (33.3 is 333) and a threshold in hundredths of a    *)
(* percent (33.32 is 3332).  A JSON value is [k, n]: k is "int", "str" or  *)
(* "absent" (the key is missing).                                          *)
(***************************************************************************)
EXTENDS Integers, Sequences, FiniteSets, TLC

VARIABLES pc, args, err, nbrTotInputReads, nbrTotMappedReads,
          dictPercentMappedReadsRefs, dictPercentMappedReadsRefsSort,
          output_file, output_counts, pre_file, pre_counts, runs

vars == <<pc, args, err, nbrTotInputReads, nbrTotMappedReads,
          dictPercentMappedReadsRefs, dictPercentMappedReadsRefsSort,
          output_file, output_counts, pre_file, pre_counts, runs>>

\* ------------------------------------------------------------------ bounds
MaxIdLen == 2
MaxRefs == 2
MaxRuns == 2

\* ------------------------------------------------------------- characters
AsciiDigits == {"0", "1", "2"}
AsciiChars == {"0", "1", "2", "A", "R", "a", "c", "e", "f", "h", "r"}

\* ord(c): the code point, which orders str values
CodePoint(c) ==
  CASE c = "0" -> 48 [] c = "1" -> 49 [] c = "2" -> 50
    [] c = "A" -> 65 [] c = "R" -> 82
    [] c = "a" -> 97 [] c = "c" -> 99 [] c = "e" -> 101 [] c = "f" -> 102
    [] c = "h" -> 104 [] c = "r" -> 114
    [] c = "SUP2" -> 178 [] c = "AR3" -> 1635

\* the character class [0-9] of the pattern: ASCII digits only
IsRegexDigit(c) == c \in AsciiDigits

\* str.isdigit() of one character: Unicode digits, ASCII or not
IsUnicodeDigit(c) == c \in AsciiDigits \cup {"SUP2", "AR3"}

\* int() accepts decimal digits only: U+00B2 is a digit and no decimal
IsDecimalChar(c) == c \in AsciiDigits \cup {"AR3"}

DigitValue(c) == CASE c = "0" -> 0 [] c = "1" -> 1 [] c = "2" -> 2 [] c = "AR3" -> 3

LowerChar(c) == CASE c = "A" -> "a" [] c = "R" -> "r" [] OTHER -> c

\* text.lower()
Lower(text) == [i \in 1..Len(text) |-> LowerChar(text[i])]

\* text.isdigit(): non-empty and every character a digit
IsDigit(text) == Len(text) > 0 /\ \A i \in 1..Len(text) : IsUnicodeDigit(text[i])

RECURSIVE IntOf(_)
\* int(text) of a text of decimal characters
IntOf(text) ==
  IF text = <<>> THEN 0
  ELSE 10 * IntOf(SubSeq(text, 1, Len(text) - 1)) + DigitValue(text[Len(text)])

\* ------------------------------------------------------------ natural key
RECURSIVE RunEnd(_, _, _)
\* the end of the maximal run of characters of one class that starts at i
RunEnd(key, i, digit) ==
  IF i <= Len(key) /\ IsRegexDigit(key[i]) = digit THEN RunEnd(key, i + 1, digit) ELSE i

RECURSIVE SplitFrom(_, _)
\* re.split('([0-9]+)', key) from position i, which starts a non-digit run:
\* the (possibly empty) text before the next digit run, the digit run, and so on
SplitFrom(key, i) ==
  LET j == RunEnd(key, i, FALSE)
      k == RunEnd(key, j, TRUE)
  IN IF j > Len(key) THEN <<SubSeq(key, i, Len(key))>>
     ELSE <<SubSeq(key, i, j - 1), SubSeq(key, j, k - 1)>> \o SplitFrom(key, k)

\* a split that drops the empty strings around the digit runs
ReSplitNoEmpty(key) == SelectSeq(SplitFrom(key, 1), LAMBDA part : part # <<>>)

ReSplit(key) == SplitFrom(key, 1)

\* a convert that never makes an int: digit runs compare as text
ConvertNoInt(text) == [t |-> "str", n |-> 0, s |-> Lower(text)]

\* convert = lambda text: int(text) if text.isdigit() else text.lower()
\* a token is [t, n, s]: an int n or a str s; int() raising is t = "ValueError"
Convert(text) ==
  IF IsDigit(text)
  THEN IF \A i \in 1..Len(text) : IsDecimalChar(text[i])
       THEN [t |-> "int", n |-> IntOf(text), s |-> <<>>]
       ELSE [t |-> "ValueError", n |-> 0, s |-> <<>>]
  ELSE [t |-> "str", n |-> 0, s |-> Lower(text)]

\* alphanum_key = lambda key: [convert(c) for c in re.split('([0-9]+)', key)]
AlphanumKey(key) == LET parts == ReSplit(key) IN [i \in 1..Len(parts) |-> Convert(parts[i])]

KeyRaises(key) == \E i \in 1..Len(AlphanumKey(key)) : AlphanumKey(key)[i].t = "ValueError"

RECURSIVE StrLess(_, _)
\* s < t of two str values: by code point, a proper prefix first
StrLess(s, t) ==
  IF t = <<>> THEN FALSE
  ELSE IF s = <<>> THEN TRUE
  ELSE IF s[1] # t[1] THEN CodePoint(s[1]) < CodePoint(t[1])
  ELSE StrLess(Tail(s), Tail(t))

TokenLess(a, b) == IF a.t = "int" THEN a.n < b.n ELSE StrLess(a.s, b.s)

RECURSIVE KeyCompare(_, _)
\* list comparison k1 < k2: "lt", "ge", or "TypeError" when the first differing
\* position holds an int on one side and a str on the other
KeyCompare(k1, k2) ==
  IF k1 = <<>> THEN (IF k2 = <<>> THEN "ge" ELSE "lt")
  ELSE IF k2 = <<>> THEN "ge"
  ELSE IF k1[1] = k2[1] THEN KeyCompare(Tail(k1), Tail(k2))
  ELSE IF k1[1].t # k2[1].t THEN "TypeError"
  ELSE IF TokenLess(k1[1], k2[1]) THEN "lt" ELSE "ge"

KeyLess(a, b) == KeyCompare(AlphanumKey(a), AlphanumKey(b)) = "lt"

\* ------------------------------------------------------------------ dicts
\* a dict is the sequence of its entries [ref, pct] in insertion order
Keys(d) == [i \in 1..Len(d) |-> d[i].ref]

Lookup(d, key) == (CHOOSE i \in 1..Len(d) : d[i].ref = key)

\* d[key] = value on a dict: replaces the value in place, else inserts last
DictSet(d, key, value) ==
  IF \E i \in 1..Len(d) : d[i].ref = key
  THEN [i \in 1..Len(d) |-> IF d[i].ref = key THEN [ref |-> key, pct |-> value] ELSE d[i]]
  ELSE Append(d, [ref |-> key, pct |-> value])

\* ----------------------------------------------------------- natural_sort
RECURSIVE InsertSortedBeforeEqual(_, _)
\* an unstable insertion: x goes before the elements whose key equals its own
InsertSortedBeforeEqual(x, sorted) ==
  IF sorted = <<>> THEN <<x>>
  ELSE IF ~KeyLess(sorted[1], x) THEN <<x>> \o sorted
  ELSE <<sorted[1]>> \o InsertSortedBeforeEqual(x, Tail(sorted))

RECURSIVE InsertSorted(_, _)
\* x goes before the first element that is greater: equal keys keep their order
InsertSorted(x, sorted) ==
  IF sorted = <<>> THEN <<x>>
  ELSE IF KeyLess(x, sorted[1]) THEN <<x>> \o sorted
  ELSE <<sorted[1]>> \o InsertSorted(x, Tail(sorted))

RECURSIVE StableSort(_)
StableSort(keys) ==
  IF keys = <<>> THEN <<>>
  ELSE InsertSorted(keys[Len(keys)], StableSort(SubSeq(keys, 1, Len(keys) - 1)))

\* what sorted(keys, key = alphanum_key) raises: the keys are all built first
\* (ValueError of int()), then compared (TypeError of int < str)
SortedRaises(keys) ==
  IF \E i \in 1..Len(keys) : KeyRaises(keys[i]) THEN "ValueError"
  ELSE IF \E i, j \in 1..Len(keys) :
            KeyCompare(AlphanumKey(keys[i]), AlphanumKey(keys[j])) = "TypeError"
       THEN "TypeError"
  ELSE "none"

\* listKeysSort = sorted(dictPercentMappedReadsRefs, key = alphanum_key)
ListKeysSort(d) == StableSort(Keys(d))

RECURSIVE Rebuild(_, _, _)
\* for key in listKeysSort: dictPercentMappedReadsRefsSort[key] = dict[key]
Rebuild(d, keys, acc) ==
  IF keys = <<>> THEN acc
  ELSE Rebuild(d, Tail(keys), DictSet(acc, keys[1], d[Lookup(d, keys[1])].pct))

\* natural_sort(dictPercentMappedReadsRefs): [err, dict]
natural_sort(d) ==
  LET e == SortedRaises(Keys(d))
  IN IF e # "none" THEN [err |-> e, dict |-> <<>>]
     ELSE [err |-> "none", dict |-> Rebuild(d, ListKeysSort(d), <<>>)]

\* -------------------------------------------------------- parse_json_file
IntV(n) == [k |-> "int", n |-> n]
StrV == [k |-> "str", n |-> 0]
AbsentV == [k |-> "absent", n |-> 0]

\* a percentage cut to one decimal instead of rounded
RoundTenthsTruncates(m, t) == (1000 * m) \div t

\* round(x, 1) of x = m / t * 100 in tenths: to the nearest tenth, an exact
\* half to the even tenth (the halves of the modelled totals are exact in binary)
RoundTenths(m, t) ==
  LET q == (1000 * m) \div t
      r == (1000 * m) % t
  IN IF 2 * r < t THEN q
     ELSE IF 2 * r > t THEN q + 1
     ELSE IF q % 2 = 0 THEN q ELSE q + 1

\* percentMappedReadsRef = round(float(num / nbrTotMappedReads) * 100, 1):
\* [err, pct]; the lookup of num comes first, then the operand types, then the divisor
PercentMappedReadsRef(num, total) ==
  IF num.k = "absent" THEN [err |-> "KeyError", pct |-> 0]
  ELSE IF num.k # "int" \/ total.k # "int" THEN [err |-> "TypeError", pct |-> 0]
  ELSE IF total.n = 0 THEN [err |-> "ZeroDivisionError", pct |-> 0]
  ELSE [err |-> "none", pct |-> RoundTenths(num.n, total.n)]

\* the comparison the wrong way round
KeepsInverted(pct, threshold) == 10 * pct <= threshold

\* a strict comparison: a percentage equal to the threshold is dropped
KeepsStrict(pct, threshold) == 10 * pct > threshold

\* if (percentMappedReadsRef >= threshold), the threshold in hundredths
Keeps(pct, threshold) == 10 * pct >= threshold

RECURSIVE ParseLoop(_, _, _, _)
\* for ref in dictJsonFile["references"]["reference"]: ... from entry 1 of items
ParseLoop(items, total, threshold, acc) ==
  IF items = <<>> THEN [err |-> "none", dict |-> acc]
  ELSE LET p == PercentMappedReadsRef(items[1].num, total)
       IN IF p.err # "none" THEN [err |-> p.err, dict |-> <<>>]
          ELSE ParseLoop(Tail(items), total, threshold,
                         IF Keeps(p.pct, threshold)
                         THEN DictSet(acc, items[1].ref, p.pct) ELSE acc)

\* parse_json_file(json_file, threshold): [err, reads, mapped, dict]
parse_json_file(json, threshold) ==
  LET fail(e) == [err |-> e, reads |-> AbsentV, mapped |-> AbsentV, dict |-> <<>>]
  IN IF ~json.wellformed THEN fail("JSONDecodeError")
     ELSE IF json.total_reads.k = "absent" THEN fail("KeyError")
     ELSE IF json.total_aligned_reads.k = "absent" THEN fail("KeyError")
     ELSE IF ~json.has_reference THEN fail("KeyError")
     ELSE LET l == ParseLoop(json.reference, json.total_aligned_reads, threshold, <<>>)
          IN IF l.err # "none" THEN fail(l.err)
             ELSE [err |-> "none", reads |-> json.total_reads,
                   mapped |-> json.total_aligned_reads, dict |-> l.dict]

\* ---------------------------------------------------------- write_results
\* str() of a float that has one decimal digit
StrFloat(pct) == ToString(pct \div 10) \o "." \o ToString(pct % 10)

\* str() of a JSON value: an int prints its digits, a str prints itself
StrValue(v) == IF v.k = "int" THEN ToString(v.n) ELSE "abc"

RECURSIVE StrRef(_)
\* str(ref): the identifier's characters
StrRef(ref) == IF ref = <<>> THEN "" ELSE ref[1] \o StrRef(Tail(ref))

\* str(sample)+"\t"+str(nbrTotInputReads)+"\t"+str(nbrTotMappedReads)
CountsLine(sample, reads, mapped) == sample \o "\t" \o StrValue(reads) \o "\t" \o StrValue(mapped)

\* str(sample)+"\t"+str(ref)+"\t"+str(dictPercentMappedReadsRefsSort[ref])
TableLine(sample, entry) == sample \o "\t" \o StrRef(entry.ref) \o "\t" \o StrFloat(entry.pct)

\* ----------------------------------------------------------------- inputs
RECURSIVE Strings(_, _)
\* every sequence over chars of length at most n
Strings(chars, n) ==
  IF n = 0 THEN {<<>>}
  ELSE LET shorter == Strings(chars, n - 1)
       IN shorter \cup {Append(q, c) : q \in shorter, c \in chars}

RECURSIVE DistinctSeqs(_, _)
\* every sequence of at most n pairwise distinct elements of S
DistinctSeqs(S, n) ==
  IF n = 0 THEN {<<>>}
  ELSE LET shorter == DistinctSeqs(S, n - 1)
       IN shorter \cup
          {Append(t[1], t[2]) :
             t \in {u \in shorter \X S : \A i \in 1..Len(u[1]) : u[1][i] # u[2]}}

RECURSIVE Assignments(_, _)
\* the JSON objects whose keys are the sequence refs, in that order: every
\* choice of a value of vals for each key
Assignments(refs, vals) ==
  IF refs = <<>> THEN {<<>>}
  ELSE {<<[ref |-> refs[1], num |-> v]>> \o rest :
          v \in vals, rest \in Assignments(Tail(refs), vals)}

\* the "reference" objects of at most n keys of ids
RefObjects(ids, vals, n) == UNION {Assignments(refs, vals) : refs \in DistinctSeqs(ids, n)}

chr1 == <<"c", "h", "r", "1">>
chr2 == <<"c", "h", "r", "2">>
chr10 == <<"c", "h", "r", "1", "0">>
ref1 == <<"r", "e", "f", "1">>
ref2 == <<"r", "e", "f", "2">>
ref10 == <<"r", "e", "f", "1", "0">>

Json(reads, aligned, reference) ==
  [wellformed |-> TRUE, total_reads |-> reads, total_aligned_reads |-> aligned,
   has_reference |-> TRUE, reference |-> reference]

\* a document json.load rejects
Malformed == [Json(AbsentV, AbsentV, <<>>) EXCEPT !.wellformed = FALSE]

\* a document without the key "reference" (or "references")
NoReference(reads, aligned) == [Json(reads, aligned, <<>>) EXCEPT !.has_reference = FALSE]

\* records that vary the shape: keys absent, values that are no numbers, a zero
\* total, several references, an identifier whose key starts with an int
ShapeRecords ==
  {Json(r, a, o) : r \in {IntV(1000), StrV, AbsentV},
                   a \in {IntV(0), IntV(500), StrV, AbsentV},
                   o \in RefObjects({chr2, chr10, <<"AR3">>},
                                    {AbsentV, StrV, IntV(100), IntV(400)}, MaxRefs)}
  \cup {Malformed, NoReference(IntV(1000), IntV(500))}

\* records that vary the numbers of one reference
NumberRecords ==
  {Json(IntV(1000), IntV(t), <<[ref |-> chr1, num |-> IntV(m)]>>) :
     m \in {0, 1, 2, 3, 5, 33, 100, 400, 600}, t \in {3, 16, 100, 500}}

Inputs ==
  {[sample |-> "S1", json |-> j, threshold |-> t] : j \in ShapeRecords, t \in {1000, 5000}}
  \cup {[sample |-> "S1", json |-> j, threshold |-> t] :
          j \in NumberRecords, t \in {0, 1000, 3120, 3332, 6670, 10000}}

\* the inputs of successive invocations that share their destinations
SeqRecords ==
  { Json(IntV(1000), IntV(500), <<[ref |-> chr1, num |-> IntV(400)],
                                  [ref |-> chr2, num |-> IntV(100)]>>),
    Json(IntV(900), IntV(500), <<[ref |-> chr10, num |-> IntV(300)],
                                 [ref |-> chr2, num |-> IntV(150)],
                                 [ref |-> chr1, num |-> IntV(50)]>>),
    Json(IntV(700), IntV(500), <<>>),
    Json(IntV(800), IntV(0), <<[ref |-> chr1, num |-> IntV(400)]>>) }

SeqInputs ==
  {[sample |-> s, json |-> j, threshold |-> t] :
     s \in {"S1", "S2"}, j \in SeqRecords, t \in {1000, 5000}}

\* what the destinations hold before the first invocation
PriorContents == {<<>>, <<"old">>}

NoArgs == [sample |-> "", json |-> Malformed, threshold |-> 0]

\* ---------------------------------------------------------------- actions
\* pc is "start", "parse", "sort", "write_counts", "write_table", "done" (exit
\* status 0) or "error" (an exception reached the top level; err names it)
InitWith(prior) ==
  /\ pc = "start"
  /\ args = NoArgs
  /\ err = "none"
  /\ nbrTotInputReads = AbsentV
  /\ nbrTotMappedReads = AbsentV
  /\ dictPercentMappedReadsRefs = <<>>
  /\ dictPercentMappedReadsRefsSort = <<>>
  /\ output_file \in prior
  /\ output_counts \in prior
  /\ pre_file = output_file
  /\ pre_counts = output_counts
  /\ runs = 0

Init == InitWith(PriorContents)

\* destinations opened in mode 'w': a new process truncates both
InvokeTruncating(inputs, limit) ==
  /\ pc \in {"start", "done", "error"}
  /\ runs < limit
  /\ \E a \in inputs : args' = a
  /\ pc' = "parse"
  /\ err' = "none"
  /\ nbrTotInputReads' = AbsentV
  /\ nbrTotMappedReads' = AbsentV
  /\ dictPercentMappedReadsRefs' = <<>>
  /\ dictPercentMappedReadsRefsSort' = <<>>
  /\ output_file' = <<>>
  /\ output_counts' = <<>>
  /\ pre_file' = output_file
  /\ pre_counts' = output_counts
  /\ runs' = runs + 1

\* a process starts: argparse opens both destinations in mode 'a'
Invoke(inputs, limit) ==
  /\ pc \in {"start", "done", "error"}
  /\ runs < limit
  /\ \E a \in inputs : args' = a
  /\ pc' = "parse"
  /\ err' = "none"
  /\ nbrTotInputReads' = AbsentV
  /\ nbrTotMappedReads' = AbsentV
  /\ dictPercentMappedReadsRefs' = <<>>
  /\ dictPercentMappedReadsRefsSort' = <<>>
  /\ pre_file' = output_file
  /\ pre_counts' = output_counts
  /\ runs' = runs + 1
  /\ UNCHANGED <<output_file, output_counts>>

InvokeOnce == Invoke(Inputs, 1)

InvokeAgain == Invoke(SeqInputs, MaxRuns)

\* an extraction whose exceptions are swallowed: the invocation goes on with
\* whatever was read
MainParseBestEffort ==
  /\ pc = "parse"
  /\ LET res == parse_json_file(args.json, args.threshold)
     IN /\ err' = "none"
        /\ pc' = "sort"
        /\ nbrTotInputReads' = res.reads
        /\ nbrTotMappedReads' = res.mapped
        /\ dictPercentMappedReadsRefs' = res.dict
  /\ UNCHANGED <<args, dictPercentMappedReadsRefsSort, output_file, output_counts,
                 pre_file, pre_counts, runs>>

\* nbr_tot_input_reads, nbr_tot_mapped_reads, dict_mapped_reads_refs = parse_json_file(...)
\* an exception is caught nowhere: the process ends with a traceback
MainParse ==
  /\ pc = "parse"
  /\ LET res == parse_json_file(args.json, args.threshold)
     IN /\ err' = res.err
        /\ pc' = IF res.err = "none" THEN "sort" ELSE "error"
        /\ nbrTotInputReads' = res.reads
        /\ nbrTotMappedReads' = res.mapped
        /\ dictPercentMappedReadsRefs' = res.dict
  /\ UNCHANGED <<args, dictPercentMappedReadsRefsSort, output_file, output_counts,
                 pre_file, pre_counts, runs>>

\* dict_mapped_reads_refs_sort = natural_sort(dict_mapped_reads_refs)
MainSort ==
  /\ pc = "sort"
  /\ LET res == natural_sort(dictPercentMappedReadsRefs)
     IN /\ err' = res.err
        /\ pc' = IF res.err = "none" THEN "write_counts" ELSE "error"
        /\ dictPercentMappedReadsRefsSort' = res.dict
  /\ UNCHANGED <<args, nbrTotInputReads, nbrTotMappedReads, dictPercentMappedReadsRefs,
                 output_file, output_counts, pre_file, pre_counts, runs>>

\* the table lines this invocation has written
Written == Len(output_file) - Len(pre_file)

\* write_results, the counts: print(..., file=output_counts)
WriteCounts ==
  /\ pc = "write_counts"
  /\ output_counts' =
       Append(output_counts, CountsLine(args.sample, nbrTotInputReads, nbrTotMappedReads))
  /\ pc' = "write_table"
  /\ UNCHANGED <<args, err, nbrTotInputReads, nbrTotMappedReads, dictPercentMappedReadsRefs,
                 dictPercentMappedReadsRefsSort, output_file, pre_file, pre_counts, runs>>

\* write_results, the table: one pass of "for ref in dictPercentMappedReadsRefsSort"
WriteTable ==
  /\ pc = "write_table"
  /\ Written < Len(dictPercentMappedReadsRefsSort)
  /\ output_file' =
       Append(output_file, TableLine(args.sample, dictPercentMappedReadsRefsSort[Written + 1]))
  /\ UNCHANGED <<pc, args, err, nbrTotInputReads, nbrTotMappedReads,
                 dictPercentMappedReadsRefs, dictPercentMappedReadsRefsSort, output_counts,
                 pre_file, pre_counts, runs>>

\* the loop is exhausted and the process exits with status 0
Exit ==
  /\ pc = "write_table"
  /\ Written = Len(dictPercentMappedReadsRefsSort)
  /\ pc' = "done"
  /\ UNCHANGED <<args, err, nbrTotInputReads, nbrTotMappedReads,
                 dictPercentMappedReadsRefs, dictPercentMappedReadsRefsSort,
                 output_file, output_counts, pre_file, pre_counts, runs>>

Run == MainParse \/ MainSort \/ WriteCounts \/ WriteTable \/ Exit

\* one invocation over the varied inputs
Next == InvokeOnce \/ Run

Spec == Init /\ [][Next]_vars

\* successive invocations that append to the same two destinations
NextSeq == InvokeAgain \/ Run

SpecSeq == InitWith({<<>>}) /\ [][NextSeq]_vars

\* ------------------------------------------- natural_sort on its own inputs
Ref1 == <<"R", "e", "f", "1">>
ref01 == <<"r", "e", "f", "0", "1">>
ref == <<"r", "e", "f">>

\* the identifiers natural_sort is applied to: every string over a letter and
\* a digit, identifiers that differ in case or in leading zeros, the spec's
\* examples, and identifiers with a non-ASCII digit
SortIdents ==
  Strings({"a", "1"}, MaxIdLen)
  \cup {<<"A">>, <<"A", "1">>, <<"a", "A">>, <<"0", "1">>}
  \cup {ref, ref1, ref2, ref10, Ref1, ref01}
  \cup {<<"AR3">>, <<"a", "AR3">>, <<"SUP2">>}

\* a filtered mapping with the keys in this insertion order
DictOf(keys) == [i \in 1..Len(keys) |-> [ref |-> keys[i], pct |-> 100 * i]]

SortInputs ==
  {DictOf(keys) : keys \in DistinctSeqs(SortIdents, MaxRefs)
                          \cup DistinctSeqs({ref1, ref2, ref10}, 3)}

InitSort ==
  /\ pc = "sort"
  /\ args = NoArgs
  /\ err = "none"
  /\ nbrTotInputReads = IntV(0)
  /\ nbrTotMappedReads = IntV(0)
  /\ dictPercentMappedReadsRefs \in SortInputs
  /\ dictPercentMappedReadsRefsSort = <<>>
  /\ output_file = <<>>
  /\ output_counts = <<>>
  /\ pre_file = <<>>
  /\ pre_counts = <<>>
  /\ runs = 1

NextSort == MainSort

SpecSort == InitSort /\ [][NextSort]_vars

\* ------------------------------------------------------ claims: the sorter
Range(q) == {q[i] : i \in 1..Len(q)}

\* every insertion order of the mapping d
Orders(d) == {p \in DistinctSeqs(Range(d), Len(d)) : Len(p) = Len(d)}

IsAscii(key) == \A i \in 1..Len(key) : key[i] \in AsciiChars

AllAscii(d) == \A i \in 1..Len(d) : IsAscii(d[i].ref)

\* natural_sort has returned
Sorted == pc = "write_counts"

\* natural_sort has returned or raised
SortEnded == pc \in {"write_counts", "error"}

\* C4: natural_sort returns the entries of its input, each with its own
\* percentage, ordered by the natural key: no entry's key is less than the key
\* of the entry before it, where digit runs compare as integers and the other
\* runs as lowercased text; {ref10, ref2, ref1} comes out as ref1, ref2, ref10,
\* in whatever order it went in.
C4_NaturalOrder ==
  Sorted =>
    /\ Range(dictPercentMappedReadsRefsSort) = Range(dictPercentMappedReadsRefs)
    /\ Len(dictPercentMappedReadsRefsSort) = Len(dictPercentMappedReadsRefs)
    /\ \A i \in 1..(Len(dictPercentMappedReadsRefsSort) - 1) :
         ~KeyLess(dictPercentMappedReadsRefsSort[i + 1].ref,
                  dictPercentMappedReadsRefsSort[i].ref)
    /\ (Range(Keys(dictPercentMappedReadsRefs)) = {ref10, ref2, ref1}
          => Keys(dictPercentMappedReadsRefsSort) = <<ref1, ref2, ref10>>)
    /\ (Range(Keys(dictPercentMappedReadsRefs)) = {<<"a", "1">>, <<"a", "A">>}
          => Keys(dictPercentMappedReadsRefsSort) = <<<<"a", "1">>, <<"a", "A">>>>)

C4_Witness ==
  /\ Sorted
  /\ Keys(dictPercentMappedReadsRefs) = <<ref10, ref2, ref1>>
  /\ Keys(dictPercentMappedReadsRefsSort) = <<ref1, ref2, ref10>>

\* C5 as claimed: distinct identifiers never have equal keys, and the output
\* order is the same for every insertion order of the mapping.
C5_NoTies ==
  Sorted =>
    /\ \A i, j \in 1..Len(dictPercentMappedReadsRefs) :
         i # j => AlphanumKey(dictPercentMappedReadsRefs[i].ref)
                    # AlphanumKey(dictPercentMappedReadsRefs[j].ref)
    /\ \A p \in Orders(dictPercentMappedReadsRefs) :
         natural_sort(p).dict = dictPercentMappedReadsRefsSort

KeysDistinct(d) ==
  \A i, j \in 1..Len(d) : i # j => AlphanumKey(d[i].ref) # AlphanumKey(d[j].ref)

\* the position of the entry e in the mapping d
Position(d, e) == CHOOSE i \in 1..Len(d) : d[i] = e

\* C5, amended: when no two identifiers of the mapping have equal keys the output
\* order is the same for every insertion order; identifiers with equal keys
\* (they differ only in letter case or in leading zeros of a digit run) come out
\* in their insertion order, so such a mapping has outputs that differ with it.
C5_OrderFixedUnlessKeysTie ==
  Sorted =>
    /\ KeysDistinct(dictPercentMappedReadsRefs) =>
         \A p \in Orders(dictPercentMappedReadsRefs) :
           Keys(natural_sort(p).dict) = Keys(dictPercentMappedReadsRefsSort)
    /\ \A i, j \in 1..Len(dictPercentMappedReadsRefsSort) :
         (/\ i < j
          /\ AlphanumKey(dictPercentMappedReadsRefsSort[i].ref)
               = AlphanumKey(dictPercentMappedReadsRefsSort[j].ref))
         => Position(dictPercentMappedReadsRefs, dictPercentMappedReadsRefsSort[i])
              < Position(dictPercentMappedReadsRefs, dictPercentMappedReadsRefsSort[j])
    /\ ~KeysDistinct(dictPercentMappedReadsRefs) =>
         \E p \in Orders(dictPercentMappedReadsRefs) :
           Keys(natural_sort(p).dict) # Keys(dictPercentMappedReadsRefsSort)

C5_Witness ==
  /\ Sorted
  /\ Keys(dictPercentMappedReadsRefs) = <<ref01, ref1>>
  /\ Keys(dictPercentMappedReadsRefsSort) = <<ref01, ref1>>

\* C10: the key of an ASCII identifier has odd length, a lowercased str at
\* positions 0, 2, ... and an int at positions 1, 3, ... (sequences count from
\* 1 here), so natural_sort raises on no set of ASCII identifiers; a key that is
\* a proper prefix of another sorts first (ref before ref1).
C10_KeyShape ==
  SortEnded =>
    /\ \A i \in 1..Len(dictPercentMappedReadsRefs) :
         LET key == AlphanumKey(dictPercentMappedReadsRefs[i].ref)
         IN IsAscii(dictPercentMappedReadsRefs[i].ref) =>
              /\ Len(key) % 2 = 1
              /\ \A n \in 1..Len(key) :
                   IF n % 2 = 1
                   THEN key[n].t = "str" /\ key[n].s = Lower(key[n].s)
                   ELSE key[n].t = "int"
    /\ AllAscii(dictPercentMappedReadsRefs) => pc # "error"
    /\ (Range(Keys(dictPercentMappedReadsRefs)) = {ref, ref1}
          => Keys(dictPercentMappedReadsRefsSort) = <<ref, ref1>>)

C10_Witness ==
  /\ Sorted
  /\ Keys(dictPercentMappedReadsRefs) = <<<<"1", "a">>, <<"a", "1">>>>
  /\ Keys(dictPercentMappedReadsRefsSort) = <<<<"1", "a">>, <<"a", "1">>>>

\* ---------------------------------------------------- claims: one invocation
\* parse_json_file has returned
Parsed == pc \in {"sort", "write_counts", "write_table", "done"}

Items == args.json.reference

Abs(x) == IF x < 0 THEN -x ELSE x

\* the tenths p nearest to 1000 * m / t: one value, two at an exact half
Nearest(m, t) ==
  {p \in {(1000 * m) \div t, (1000 * m) \div t + 1} : 2 * Abs(1000 * m - p * t) <= t}

\* the i-th table line this invocation wrote
NewLine(i) == output_file[Len(pre_file) + i]

\* C1: every entry parse_json_file returns has a percentage at or above the
\* threshold, and every table line an invocation writes is the line of a
\* reference of the record with a percentage, one of the tenths nearest to its
\* ratio, at or above the threshold.
C1_ReportedAtLeastThreshold ==
  /\ Parsed => \A i \in 1..Len(dictPercentMappedReadsRefs) :
                 10 * dictPercentMappedReadsRefs[i].pct >= args.threshold
  /\ \A i \in 1..Written :
       \E k \in 1..Len(Items) :
         \E p \in Nearest(Items[k].num.n, args.json.total_aligned_reads.n) :
           /\ NewLine(i) = TableLine(args.sample, [ref |-> Items[k].ref, pct |-> p])
           /\ 10 * p >= args.threshold

C1_Witness ==
  /\ pc = "done"
  /\ Written = 1
  /\ 10 * dictPercentMappedReadsRefsSort[1].pct = args.threshold
  /\ args.threshold = 3120

\* the references of the record whose rounded percentage reaches the threshold
Qualifying ==
  {k \in 1..Len(Items) :
     10 * RoundTenths(Items[k].num.n, args.json.total_aligned_reads.n) >= args.threshold}

\* C2: when an invocation completes, every reference whose rounded percentage
\* is at or above the threshold has exactly one table line among the lines the
\* invocation wrote, and it wrote no other line.
C2_QualifyingExactlyOnce ==
  pc = "done" =>
    /\ \A k \in Qualifying :
         Cardinality({i \in 1..Written :
            NewLine(i) = TableLine(args.sample,
              [ref |-> Items[k].ref,
               pct |-> RoundTenths(Items[k].num.n, args.json.total_aligned_reads.n)])}) = 1
    /\ Written = Cardinality(Qualifying)

C2_Witness ==
  /\ pc = "done"
  /\ Written = 2
  /\ Keys(dictPercentMappedReadsRefs) = <<chr10, chr2>>
  /\ Keys(dictPercentMappedReadsRefsSort) = <<chr2, chr10>>

\* the exceptions Python raises in this program; none is caught
UncaughtExceptions ==
  {"JSONDecodeError", "KeyError", "TypeError", "ZeroDivisionError", "ValueError"}

\* C3 as claimed: with total_aligned_reads = 0 the invocation never gets past
\* the extraction and ends in an error an explicit guard reports, not in an
\* exception nothing handles.
C3_ZeroTotalRejectedByGuard ==
  (/\ pc # "start"
   /\ args.json.wellformed
   /\ args.json.total_reads.k = "int"
   /\ args.json.total_aligned_reads = IntV(0))
  => /\ ~Parsed
     /\ pc = "error" => err \notin UncaughtExceptions

\* a required field of the record is absent or is no number
FieldMissingOrNonNumeric ==
  \/ args.json.total_reads.k # "int"
  \/ args.json.total_aligned_reads.k # "int"
  \/ ~args.json.has_reference
  \/ \E k \in 1..Len(Items) : Items[k].num.k # "int"

\* C7 as claimed: parse_json_file fails whenever a required field is absent or
\* non-numeric, so such a record never reaches the counts line.
C7_BadFieldRejected ==
  (pc \notin {"start", "parse"} /\ args.json.wellformed /\ FieldMissingOrNonNumeric)
  => (pc = "error" /\ output_counts = pre_counts)

\* C8: an invocation in which parse_json_file or natural_sort raises ends in
\* the error state, and in the error state both destinations hold exactly what
\* they held before the invocation.
C8_NoPartialOutput ==
  /\ pc = "error" => (output_file = pre_file /\ output_counts = pre_counts)
  /\ (pc \notin {"start", "parse"}
      /\ parse_json_file(args.json, args.threshold).err # "none") => pc = "error"
  /\ (pc \notin {"start", "parse", "sort"}
      /\ parse_json_file(args.json, args.threshold).err = "none"
      /\ natural_sort(parse_json_file(args.json, args.threshold).dict).err # "none")
     => pc = "error"

C8_Witness ==
  /\ pc = "error"
  /\ err = "TypeError"
  /\ args.json.total_aligned_reads = IntV(500)
  /\ Len(Items) = 2
  /\ Items[1].num = IntV(400)
  /\ Items[2].num = StrV
  /\ output_file = <<"old">>
  /\ output_counts = <<"old">>

\* the entries of the returned mapping for the k-th reference of the record
EntriesOf(k) ==
  {i \in 1..Len(dictPercentMappedReadsRefs) : dictPercentMappedReadsRefs[i].ref = Items[k].ref}

\* the k-th reference has count m of total t and, if kept, is stored as p
Example(k, m, t, p) ==
  (Items[k].num.n = m /\ args.json.total_aligned_reads.n = t)
  => \A i \in EntriesOf(k) : dictPercentMappedReadsRefs[i].pct = p

\* C9: the percentage stored for a reference with count m of total t > 0 is
\* m / t * 100 rounded to one decimal (33 of 100 is 33.0, 1 of 3 is 33.3, 400 of
\* 500 is 80.0, an exact half goes to the even tenth); the reference is kept
\* exactly when the rounded value is at or above the threshold (2 of 3 is kept
\* at 66.7, 1 of 3 is dropped at 33.32); a count above the total is kept as a
\* value above 100.
C9_RoundedPercentage ==
  Parsed =>
    \A k \in 1..Len(Items) :
      LET m == Items[k].num.n
          t == args.json.total_aligned_reads.n
      IN /\ t > 0
         /\ IF EntriesOf(k) # {}
            THEN \A i \in EntriesOf(k) :
                   /\ dictPercentMappedReadsRefs[i].pct \in Nearest(m, t)
                   /\ 10 * dictPercentMappedReadsRefs[i].pct >= args.threshold
            ELSE \E p \in Nearest(m, t) : 10 * p < args.threshold
         /\ Example(k, 33, 100, 330) /\ Example(k, 1, 3, 333) /\ Example(k, 400, 500, 800)
         /\ Example(k, 5, 16, 312) /\ Example(k, 3, 16, 188) /\ Example(k, 600, 500, 1200)
         /\ (m = 2 /\ t = 3 /\ args.threshold = 6670) => EntriesOf(k) # {}
         /\ (m = 1 /\ t = 3 /\ args.threshold = 3332) => EntriesOf(k) = {}
         /\ (m = 600 /\ t = 500 /\ args.threshold = 10000) => EntriesOf(k) # {}

C9_Witness ==
  /\ pc = "done"
  /\ Len(Items) = 1
  /\ Items[1].num = IntV(2)
  /\ args.json.total_aligned_reads = IntV(3)
  /\ args.threshold = 6670
  /\ dictPercentMappedReadsRefs = <<[ref |-> chr1, pct |-> 667]>>

\* ------------------------------------------- claims: successive invocations
IsPrefix(p, q) == Len(p) <= Len(q) /\ SubSeq(q, 1, Len(p)) = p

\* the spec's end-to-end scenario
Scenario ==
  Json(IntV(1000), IntV(500), <<[ref |-> chr1, num |-> IntV(400)],
                                [ref |-> chr2, num |-> IntV(100)]>>)

\* the counts line is out: write_results is in its loop or past it
CountsWritten == pc \in {"write_table", "done"}

C6_Content ==
  /\ output_counts =
       pre_counts \o (IF CountsWritten
                      THEN <<CountsLine(args.sample, args.json.total_reads,
                                        args.json.total_aligned_reads)>>
                      ELSE <<>>)
  /\ Written >= 0
  /\ Written > 0 => CountsWritten
  /\ output_file = pre_file \o [i \in 1..Written |-> NewLine(i)]
  /\ \A i \in 1..Written :
       \E k \in Qualifying :
         NewLine(i) = TableLine(args.sample,
           [ref |-> Items[k].ref,
            pct |-> RoundTenths(Items[k].num.n, args.json.total_aligned_reads.n)])
  /\ \A i \in 1..(Written - 1) :
       KeyLess(dictPercentMappedReadsRefsSort[i].ref, dictPercentMappedReadsRefsSort[i + 1].ref)
  /\ pc = "done" => Written = Cardinality(Qualifying)
  /\ (pc = "done" /\ args.json = Scenario /\ args.sample = "S1")
     => /\ output_counts = Append(pre_counts, "S1\t1000\t500")
        /\ output_file = pre_file \o
             (IF args.threshold = 1000 THEN <<"S1\tchr1\t80.0", "S1\tchr2\t20.0">>
              ELSE <<"S1\tchr1\t80.0">>)

C6_Step == IsPrefix(output_file, output_file') /\ IsPrefix(output_counts, output_counts')

\* C6: no step removes or changes what a destination holds; each invocation
\* that completes has appended to the counts destination exactly one line,
\* sample/total_reads/total_aligned_reads as read from the record, and to the
\* table destination exactly one line per qualifying reference in natural
\* order; it writes the counts line before any table line.
C6_AppendOnlyExact == []C6_Content /\ [][C6_Step]_vars

C6_Witness ==
  /\ pc = "done"
  /\ runs = 2
  /\ Len(pre_file) > 0
  /\ Len(pre_counts) > 0
  /\ Keys(dictPercentMappedReadsRefs) = <<chr10, chr2, chr1>>
  /\ output_file = pre_file \o <<"S2\tchr1\t10.0", "S2\tchr2\t30.0", "S2\tchr10\t60.0">>
  /\ output_counts = Append(pre_counts, "S2\t900\t500")

====
